---- MODULE Spec2Model ----
(***************************************************************************)
(* Model of the AuthPage component of frontend/app/src/components/auth/    *)
(* page.tsx: the React state `loading`, the rendered Button, and the async *)
(* handler handleLogin, run on a single-threaded browser event loop.       *)
(* Every run of handleLogin has its own program counter (named after the   *)
(* source line it is about to execute) and its own trace of the effects it *)
(* has produced, so that runs may overlap if the code lets them.           *)
(***************************************************************************)
EXTENDS Integers, Sequences, FiniteSets

\* ---- bounds ------------------------------------------------------------
MaxRuns == 2
MaxSuppressed == 1

Runs == 1..MaxRuns

\* ---- JavaScript values -------------------------------------------------
Undefined == [t |-> "undefined", v |-> ""]
Str(s) == [t |-> "string", v |-> s]
Num(s) == [t |-> "number", v |-> s]

\* String(x), as applied by the location.href setter to its argument
ToString(x) == IF x.t = "undefined" THEN "undefined" ELSE x.v

NoData == [t |-> "unset", auth_url |-> Undefined]
JsonNull == [t |-> "null", auth_url |-> Undefined]
JsonObject(a) == [t |-> "object", auth_url |-> a]

\* ---- inputs: what the backend and the network can answer ----------------
AuthUrls == {"https://provider.example/authorize?x=1", "https://x.com/i/oauth2/authorize?state=s"}
Statuses == {200, 404, 500}
AuthValues == {Undefined, Num("42")} \cup {Str(u) : u \in AuthUrls}
Bodies == {[json |-> FALSE, value |-> NoData]}
            \cup {[json |-> TRUE, value |-> d] : d \in {JsonNull} \cup {JsonObject(a) : a \in AuthValues}}
NoResponse == [kind |-> "none", status |-> 0]
NetworkError == [kind |-> "rejected", status |-> 0]
FetchOutcomes == {NetworkError} \cup {[kind |-> "response", status |-> s] : s \in Statuses}

\* the document the component lives in
Origin == "/auth"

\* ---- the component's pure parts ----------------------------------------
\* Response.ok
OkLax(status) == status >= 200
OkNotServerError(status) == status < 500
Ok(status) == status >= 200 /\ status <= 299

\* <Button disabled={loading}> {loading ? 'Connecting...' : 'Login with X'}
RenderButtonNeverDisabled(l) == [disabled |-> FALSE, label |-> IF l THEN "Connecting..." ELSE "Login with X"]
RenderButtonLabelFixed(l) == [disabled |-> l, label |-> "Login with X"]
RenderButtonLabelSwapped(l) == [disabled |-> l, label |-> IF l THEN "Login with X" ELSE "Connecting..."]
RenderButton(l) == [disabled |-> l, label |-> IF l THEN "Connecting..." ELSE "Login with X"]

\* the try block of handleLogin spans lines 12..28; an exception thrown in it
\* enters the catch clause at line 30, one thrown elsewhere rejects the promise
TryFirst == 12
TryLast == 28
OnThrowUncaught(line) == "rejected"
OnThrowRetry(line) == IF line >= TryFirst /\ line <= 21 THEN "L13" ELSE "L30"
OnThrow(line) == IF line >= TryFirst /\ line <= TryLast THEN "L30" ELSE "rejected"

\* the value assigned to window.location.href
NavTargetFixed(d) == Origin
NavTarget(d) == ToString(d.auth_url)

ErrFetch == "TypeError: Failed to fetch"
ErrStatus == "Error: Failed to initiate X login"
ErrJson == "SyntaxError: Unexpected token in JSON"
ErrNull == "TypeError: Cannot read properties of null (reading 'auth_url')"
AlertText == "Failed to start X login. Please try again."
LoginPath == "POST /api/v1/auth/x/login"

\* useState(false): the value of loading at mount, the Idle state
InitialLoading == FALSE

\* ---- state -------------------------------------------------------------
VARIABLES
  loading,     \* the React state (latest value given to setLoading)
  view,        \* the Button as last rendered: [disabled, label]
  pc,          \* per run of handleLogin: "new", "L11", "L13", "awaitFetch",
               \* "L20", "awaitJson", "L27", "L30", "L31", "L33", "done", "rejected"
  cur,         \* the run whose synchronous code the event loop is executing (0: none)
  loop,        \* "idle" | "run" | "flush" (React's synchronous re-render ending a click task)
  response,    \* per run: what fetch settled with
  data,        \* per run: the parsed body
  err,         \* per run: the exception caught
  trace,       \* per run: the effects it produced, in order
  href,        \* window.location.href
  mounted,     \* FALSE once the document has been replaced
  suppressed   \* activations of the disabled control dropped by the browser

vars == <<loading, view, pc, cur, loop, response, data, err, trace, href, mounted, suppressed>>

Ev(e, v, d) == [e |-> e, v |-> v, d |-> d]
Emit(r, ev) == [trace EXCEPT ![r] = Append(@, ev)]

Init ==
  /\ loading = InitialLoading
  /\ view = RenderButton(FALSE)
  /\ pc = [r \in Runs |-> "new"]
  /\ cur = 0
  /\ loop = "idle"
  /\ response = [r \in Runs |-> NoResponse]
  /\ data = [r \in Runs |-> NoData]
  /\ err = [r \in Runs |-> ""]
  /\ trace = [r \in Runs |-> <<>>]
  /\ href = Origin
  /\ mounted = TRUE
  /\ suppressed = 0

NextRun == CHOOSE r \in Runs : pc[r] = "new" /\ \A q \in Runs : pc[q] = "new" => r <= q

\* where the event loop stands once the current run has moved to p
LoopAfter(p) == IF p \in {"rejected", "done", "awaitJson"} THEN "idle" ELSE "run"
CurAfter(r, p) == IF LoopAfter(p) = "idle" THEN 0 ELSE r

\* ---- user and browser --------------------------------------------------
\* a click on the enabled Button calls onClick={handleLogin}
Click ==
  /\ mounted /\ loop = "idle"
  /\ ~view.disabled
  /\ \E r \in Runs : pc[r] = "new"
  /\ pc' = [pc EXCEPT ![NextRun] = "L11"]
  /\ cur' = NextRun
  /\ loop' = "run"
  /\ trace' = Emit(NextRun, Ev("click", view.label, view.disabled))
  /\ UNCHANGED <<loading, view, response, data, err, href, mounted, suppressed>>

\* a click on the disabled Button is not delivered to onClick
ClickDisabled ==
  /\ mounted /\ loop = "idle"
  /\ view.disabled
  /\ suppressed < MaxSuppressed
  /\ suppressed' = suppressed + 1
  /\ UNCHANGED <<loading, view, pc, cur, loop, response, data, err, trace, href, mounted>>

\* ---- handleLogin -------------------------------------------------------
\* line 11: setLoading(true)
SetLoadingTrueWrong ==
  /\ loop = "run" /\ cur \in Runs /\ pc[cur] = "L11"
  /\ loading' = FALSE
  /\ pc' = [pc EXCEPT ![cur] = "L13"]
  /\ trace' = Emit(cur, Ev("setLoading", "", loading'))
  /\ UNCHANGED <<view, cur, loop, response, data, err, href, mounted, suppressed>>

SetLoadingTrue ==
  /\ loop = "run" /\ cur \in Runs /\ pc[cur] = "L11"
  /\ loading' = TRUE
  /\ pc' = [pc EXCEPT ![cur] = "L13"]
  /\ trace' = Emit(cur, Ev("setLoading", "", loading'))
  /\ UNCHANGED <<view, cur, loop, response, data, err, href, mounted, suppressed>>

\* lines 13-18: fetch(...) dispatches the request; await suspends the handler
\* and the click task ends with React's synchronous re-render
Fetch ==
  /\ loop = "run" /\ cur \in Runs /\ pc[cur] = "L13"
  /\ pc' = [pc EXCEPT ![cur] = "awaitFetch"]
  /\ trace' = Emit(cur, Ev("fetch", LoginPath, loading))
  /\ loop' = "flush"
  /\ UNCHANGED <<loading, view, cur, response, data, err, href, mounted, suppressed>>

\* the re-render React performs before the click task gives way to another task
FlushSync ==
  /\ loop = "flush" /\ cur \in Runs
  /\ view' = RenderButton(loading)
  /\ trace' = Emit(cur, Ev("render", view'.label, view'.disabled))
  /\ loop' = "idle"
  /\ cur' = 0
  /\ UNCHANGED <<loading, pc, response, data, err, href, mounted, suppressed>>

\* the fetch promise settles; the handler resumes at line 20, or the rejection
\* is thrown at the await of line 13
FetchSettle ==
  /\ mounted /\ loop = "idle"
  /\ \E r \in Runs, out \in FetchOutcomes :
       /\ pc[r] = "awaitFetch"
       /\ response' = [response EXCEPT ![r] = out]
       /\ trace' = Emit(r, Ev("settle", out.kind, loading))
       /\ LET p == IF out.kind = "rejected" THEN OnThrow(13) ELSE "L20" IN
            /\ pc' = [pc EXCEPT ![r] = p]
            /\ err' = [err EXCEPT ![r] = IF out.kind = "rejected" THEN ErrFetch ELSE @]
            /\ loop' = LoopAfter(p)
            /\ cur' = CurAfter(r, p)
  /\ UNCHANGED <<loading, view, data, href, mounted, suppressed>>

\* lines 20-24: if (!response.ok) throw ...; otherwise response.json() is
\* called and awaited
CheckOk ==
  /\ loop = "run" /\ cur \in Runs /\ pc[cur] = "L20"
  /\ LET p == IF Ok(response[cur].status) THEN "awaitJson" ELSE OnThrow(21) IN
       /\ pc' = [pc EXCEPT ![cur] = p]
       /\ err' = [err EXCEPT ![cur] = IF Ok(response[cur].status) THEN @ ELSE ErrStatus]
       /\ trace' = IF Ok(response[cur].status) THEN Emit(cur, Ev("json", "", loading)) ELSE trace
       /\ loop' = LoopAfter(p)
       /\ cur' = CurAfter(cur, p)
  /\ UNCHANGED <<loading, view, response, data, href, mounted, suppressed>>

\* the json() promise settles: with the parsed body, or rejected when the
\* body is not JSON (thrown at the await of line 24)
JsonSettle ==
  /\ mounted /\ loop = "idle"
  /\ \E r \in Runs, b \in Bodies :
       /\ pc[r] = "awaitJson"
       /\ LET p == IF b.json THEN "L27" ELSE OnThrow(24) IN
            /\ pc' = [pc EXCEPT ![r] = p]
            /\ data' = [data EXCEPT ![r] = b.value]
            /\ err' = [err EXCEPT ![r] = IF b.json THEN @ ELSE ErrJson]
            /\ loop' = LoopAfter(p)
            /\ cur' = CurAfter(r, p)
  /\ UNCHANGED <<loading, view, response, trace, href, mounted, suppressed>>

\* line 27: window.location.href = data.auth_url
RedirectTerminal ==
  /\ loop = "run" /\ cur \in Runs /\ pc[cur] = "L27"
  /\ IF data[cur].t = "null"
       THEN /\ pc' = [pc EXCEPT ![cur] = OnThrow(27)]
            /\ err' = [err EXCEPT ![cur] = ErrNull]
            /\ loop' = LoopAfter(OnThrow(27))
            /\ cur' = CurAfter(cur, OnThrow(27))
            /\ UNCHANGED <<href, trace>>
       ELSE /\ href' = NavTarget(data[cur])
            /\ trace' = Emit(cur, Ev("navigate", href', loading))
            /\ pc' = [pc EXCEPT ![cur] = "done"]
            /\ loop' = "idle"
            /\ cur' = 0
            /\ UNCHANGED err
  /\ UNCHANGED <<loading, view, response, data, mounted, suppressed>>

Redirect ==
  /\ loop = "run" /\ cur \in Runs /\ pc[cur] = "L27"
  /\ IF data[cur].t = "null"
       THEN /\ pc' = [pc EXCEPT ![cur] = OnThrow(27)]
            /\ err' = [err EXCEPT ![cur] = ErrNull]
            /\ loop' = LoopAfter(OnThrow(27))
            /\ cur' = CurAfter(cur, OnThrow(27))
            /\ UNCHANGED <<href, trace>>
       ELSE /\ href' = NavTarget(data[cur])
            /\ trace' = Emit(cur, Ev("navigate", href', loading))
            /\ pc' = [pc EXCEPT ![cur] = "L33"]
            /\ UNCHANGED <<err, loop, cur>>
  /\ UNCHANGED <<loading, view, response, data, mounted, suppressed>>

\* line 30: console.error('X login error:', error)
LogErrorAfterReset ==
  /\ loop = "run" /\ cur \in Runs /\ pc[cur] = "L30"
  /\ loading' = FALSE
  /\ trace' = Emit(cur, Ev("log", err[cur], loading'))
  /\ pc' = [pc EXCEPT ![cur] = "L31"]
  /\ UNCHANGED <<view, cur, loop, response, data, err, href, mounted, suppressed>>

LogError ==
  /\ loop = "run" /\ cur \in Runs /\ pc[cur] = "L30"
  /\ trace' = Emit(cur, Ev("log", err[cur], loading))
  /\ pc' = [pc EXCEPT ![cur] = "L31"]
  /\ UNCHANGED <<loading, view, cur, loop, response, data, err, href, mounted, suppressed>>

\* line 31: alert('Failed to start X login. Please try again.')
Alert ==
  /\ loop = "run" /\ cur \in Runs /\ pc[cur] = "L31"
  /\ trace' = Emit(cur, Ev("alert", AlertText, loading))
  /\ pc' = [pc EXCEPT ![cur] = "L33"]
  /\ UNCHANGED <<loading, view, cur, loop, response, data, err, href, mounted, suppressed>>

\* lines 32-34: finally { setLoading(false) }; the handler returns
FinallySkipped ==
  /\ loop = "run" /\ cur \in Runs /\ pc[cur] = "L33"
  /\ loading' = IF err[cur] = "" THEN FALSE ELSE loading
  /\ trace' = Emit(cur, Ev("setLoading", "", loading'))
  /\ pc' = [pc EXCEPT ![cur] = "done"]
  /\ loop' = "idle"
  /\ cur' = 0
  /\ UNCHANGED <<view, response, data, err, href, mounted, suppressed>>

Finally ==
  /\ loop = "run" /\ cur \in Runs /\ pc[cur] = "L33"
  /\ loading' = FALSE
  /\ trace' = Emit(cur, Ev("setLoading", "", loading'))
  /\ pc' = [pc EXCEPT ![cur] = "done"]
  /\ loop' = "idle"
  /\ cur' = 0
  /\ UNCHANGED <<view, response, data, err, href, mounted, suppressed>>

\* ---- React and the document --------------------------------------------
\* the re-render React schedules as a task of its own after a setLoading made
\* outside an event handler
Render ==
  /\ mounted /\ loop = "idle"
  /\ view # RenderButton(loading)
  /\ view' = RenderButton(loading)
  /\ UNCHANGED <<loading, pc, cur, loop, response, data, err, trace, href, mounted, suppressed>>

\* the navigation started by line 27 replaces the document
Unload ==
  /\ mounted /\ loop = "idle"
  /\ href # Origin
  /\ mounted' = FALSE
  /\ UNCHANGED <<loading, view, pc, cur, loop, response, data, err, trace, href, suppressed>>

Next ==
  \/ Click
  \/ ClickDisabled
  \/ SetLoadingTrue
  \/ Fetch
  \/ FlushSync
  \/ FetchSettle
  \/ CheckOk
  \/ JsonSettle
  \/ Redirect
  \/ LogError
  \/ Alert
  \/ Finally
  \/ Render
  \/ Unload

Spec == Init /\ [][Next]_vars

\* the synchronous code of a task, which the event loop runs to completion
HandlerStep ==
  \/ SetLoadingTrue
  \/ Fetch
  \/ FlushSync
  \/ CheckOk
  \/ Redirect
  \/ LogError
  \/ Alert
  \/ Finally

\* a task runs to completion, a scheduled re-render is performed, and every
\* dispatched request (and body read) eventually settles while the document
\* lives; nothing obliges the user to click or the navigation to complete
FairSpec ==
  /\ Spec
  /\ WF_vars(HandlerStep)
  /\ WF_vars(FetchSettle)
  /\ WF_vars(JsonSettle)
  /\ WF_vars(Render)

\* ---- vocabulary of the properties --------------------------------------
Has(r, e) == \E i \in DOMAIN trace[r] : trace[r][i].e = e
Count(r, e) == Cardinality({i \in DOMAIN trace[r] : trace[r][i].e = e})
InFlight(r) == pc[r] \in {"awaitFetch", "awaitJson"}
Active(r) == pc[r] \notin {"new", "done", "rejected"}
Finished(r) == pc[r] \in {"done", "rejected"}

TypeOK ==
  /\ loading \in BOOLEAN
  /\ view \in [disabled : BOOLEAN, label : {"Connecting...", "Login with X"}]
  /\ cur \in 0..MaxRuns
  /\ loop \in {"idle", "run", "flush"}
  /\ mounted \in BOOLEAN
  /\ suppressed \in 0..MaxSuppressed

First(r, e) == CHOOSE i \in DOMAIN trace[r] : trace[r][i].e = e /\ \A k \in 1..(i-1) : trace[r][k].e # e
LastEv(r) == trace[r][Len(trace[r])]
NonSuccess(r) == response[r].kind = "response" /\ (response[r].status < 200 \/ response[r].status > 299)

\* ---- C1 ----------------------------------------------------------------
\* C1: at most one login request is in flight at any time, and whenever the
\* event loop is ready to deliver a user event while the state is Pending the
\* rendered control is disabled, so no activation reaches handleLogin between
\* setLoading(true) and the re-render; a dropped activation starts no run.
C1_AtMostOneInFlight ==
  /\ Cardinality({r \in Runs : InFlight(r)}) <= 1
  /\ (loop = "idle" /\ loading => view.disabled)
  /\ Cardinality({r \in Runs : Has(r, "fetch")}) = Cardinality({r \in Runs : Has(r, "click")}) - (IF loop = "run" /\ cur \in Runs /\ ~Has(cur, "fetch") THEN 1 ELSE 0)

C1_Witness ==
  /\ suppressed > 0
  /\ Cardinality({r \in Runs : InFlight(r)}) = 1
  /\ Cardinality({r \in Runs : Has(r, "fetch")}) = 1

\* ---- C2 ----------------------------------------------------------------
\* C2: when no run of handleLogin is executing or awaiting, loading is FALSE,
\* and the last effect of every run that returned is setLoading(false),
\* whichever path it took.
C2_NeverStuckPending ==
  /\ ((\A r \in Runs : ~Active(r)) => loading = FALSE)
  /\ \A r \in Runs : pc[r] = "done" => LastEv(r) = Ev("setLoading", "", FALSE)

C2_Witness ==
  /\ \A r \in Runs : ~Active(r)
  /\ \E r \in Runs : pc[r] = "done" /\ err[r] = ErrJson
  /\ \E r \in Runs : pc[r] = "done" /\ err[r] = "" /\ Has(r, "navigate")
  /\ mounted /\ ~loading

\* ---- C3 ----------------------------------------------------------------
\* C3: a success status with a JSON object body whose auth_url is missing or
\* not a string triggers no navigation and produces the failure notification.
C3_MissingAuthUrlIsFailure ==
  \A r \in Runs :
    (pc[r] = "done" /\ response[r].kind = "response" /\ Ok(response[r].status)
       /\ data[r].t = "object" /\ data[r].auth_url.t # "string")
    => (Count(r, "navigate") = 0 /\ Count(r, "alert") = 1)

\* ---- C4 ----------------------------------------------------------------
\* C4: after a non-success status the body is never parsed, nothing is
\* navigated to, and the run produces exactly one failure notification.
C4_NonSuccessStatus ==
  \A r \in Runs :
    NonSuccess(r) =>
      /\ Count(r, "json") = 0 /\ data[r] = NoData
      /\ Count(r, "navigate") = 0
      /\ Count(r, "alert") <= 1
      /\ pc[r] \in {"L20", "L30", "L31", "L33", "done"}
      /\ (pc[r] \in {"L33", "done"} => Count(r, "alert") = 1)

C4_Witness ==
  \E r \in Runs : pc[r] = "done" /\ response[r].status = 500 /\ Count(r, "alert") = 1

\* ---- C5 ----------------------------------------------------------------
\* C5: a success response whose body carries an auth_url string u makes the
\* run assign exactly u to window.location.href, once, with no notification.
C5_NavigatesToAuthUrl ==
  \A r \in Runs :
    (pc[r] \in {"L33", "done"} /\ data[r].t = "object" /\ data[r].auth_url.t = "string")
    => /\ Count(r, "navigate") = 1
       /\ trace[r][First(r, "navigate")].v = data[r].auth_url.v
       /\ Count(r, "alert") = 0
       /\ (pc[r] = "L33" => href = data[r].auth_url.v)

C5_Witness ==
  \E r \in Runs : pc[r] = "done" /\ Has(r, "navigate") /\ href \in AuthUrls
                    /\ data[r].auth_url = Str(href)

\* ---- C6 ----------------------------------------------------------------
\* C6 (as stated): while a request is dispatched and unsettled the rendered
\* control is never still enabled with label "Login with X".
C6_RenderedBeforeDispatch ==
  \A r \in Runs : pc[r] = "awaitFetch" => ~(~view.disabled /\ view.label = "Login with X")

\* C6 (amended): setLoading(true) precedes the dispatch, the dispatch happens
\* while the rendered control is still enabled, and the re-render showing the
\* control disabled with "Connecting..." is the very next effect, made before
\* the event loop takes any other task.
C6_PendingSetBeforeDispatch ==
  \A r \in Runs :
    Has(r, "fetch") =>
      /\ First(r, "setLoading") < First(r, "fetch")
      /\ trace[r][First(r, "setLoading")].d
      /\ trace[r][First(r, "fetch")].d
      /\ IF loop = "flush" /\ cur = r
           THEN ~view.disabled /\ view.label = "Login with X" /\ ~Has(r, "render")
           ELSE /\ Len(trace[r]) > First(r, "fetch")
                /\ trace[r][First(r, "fetch") + 1] = Ev("render", "Connecting...", TRUE)

C6_Witness ==
  \E r \in Runs : Has(r, "render") /\ pc[r] = "awaitFetch" /\ view.disabled

\* ---- C7 ----------------------------------------------------------------
\* C7: in every run whose fetch has settled, a render showing the control
\* disabled with "Connecting..." came strictly before the settlement.
C7_ConnectingBeforeSettle ==
  \A r \in Runs :
    Has(r, "settle") =>
      \E i, j \in DOMAIN trace[r] :
        /\ i < j
        /\ trace[r][i] = Ev("render", "Connecting...", TRUE)
        /\ trace[r][j].e = "settle"

C7_Witness ==
  /\ \E r \in Runs : Has(r, "settle") /\ response[r].kind = "rejected"
  /\ \E r \in Runs : Has(r, "settle") /\ response[r].kind = "response"

\* ---- C8 ----------------------------------------------------------------
\* C8: the rendered control is disabled exactly when its label is
\* "Connecting...", and every render makes both agree with loading.
C8_LabelAndDisabledFollowLoading ==
  /\ [](view.disabled <=> (view.label = "Connecting..."))
  /\ [](view.label \in {"Connecting...", "Login with X"})
  /\ [][view' # view => (view'.disabled <=> loading') /\ ((view'.label = "Connecting...") <=> loading')]_vars

C8_Witness ==
  /\ view.disabled /\ view.label = "Connecting..." /\ loading
  /\ \E r \in Runs : pc[r] = "done"

\* ---- C9 ----------------------------------------------------------------
\* C9: no run of handleLogin ends rejected; a run that hit a failure goes
\* through the catch clause, navigates nowhere and returns with loading FALSE.
C9_FailuresCaught ==
  \A r \in Runs :
    /\ pc[r] # "rejected"
    /\ (err[r] # "" => pc[r] \in {"L30", "L31", "L33", "done"} /\ Count(r, "navigate") = 0)
    /\ (err[r] # "" /\ pc[r] = "done" => ~LastEv(r).d /\ Has(r, "log") /\ Has(r, "alert"))

C9_Witness ==
  /\ mounted
  /\ \E r \in Runs : pc[r] = "done" /\ err[r] = ErrFetch
  /\ \E r \in Runs : pc[r] = "done" /\ err[r] = ErrStatus

\* ---- C10 ---------------------------------------------------------------
\* C10: from the dispatch of a run's request until its redirect or failure,
\* loading is TRUE.
C10_PendingWhileOutstanding ==
  \A r \in Runs : pc[r] \in {"awaitFetch", "L20", "awaitJson", "L27"} => loading

C10_Witness ==
  \E r, q \in Runs : pc[q] = "done" /\ pc[r] = "awaitJson" /\ loading /\ loop = "idle"

\* ---- C11 ---------------------------------------------------------------
\* the latest run of handleLogin, when it has returned after a failure and no
\* activation has followed it
FailedLast(r) == pc[r] = "done" /\ err[r] # "" /\ \A q \in Runs : q > r => pc[q] = "new"

\* C11 (as stated): after a failure the state holds a value that is neither
\* the Idle value nor the Pending value.
C11_FailedIsDistinctState ==
  \A r \in Runs : FailedLast(r) => (loading # InitialLoading /\ loading # TRUE)

\* C11 (amended): after a failure loading is back at its initial value FALSE,
\* the same value as Idle, and it leaves that value only by line 11 of a run
\* started by a later activation.
C11_FailureResetsToIdle ==
  /\ [](\A r \in Runs : FailedLast(r) => loading = InitialLoading)
  /\ [][(loading = InitialLoading /\ loading' # InitialLoading)
          => \E r \in Runs : pc[r] = "L11" /\ pc'[r] = "L13" /\ LastEv(r).e = "click"]_vars

C11_Witness ==
  \E r, q \in Runs : /\ r < q /\ pc[r] = "done" /\ err[r] # "" /\ Count(r, "alert") = 1
                     /\ FailedLast(q) /\ ~loading /\ mounted

\* ---- C12 ---------------------------------------------------------------
\* C12: a run dispatches one request, to POST /api/v1/auth/x/login, right
\* after its activation and setLoading(true), and never another one, also
\* after a failure; requests never outnumber activations.
C12_OneRequestPerActivation ==
  /\ \A r \in Runs :
       /\ Count(r, "fetch") <= 1 /\ Count(r, "click") <= 1
       /\ (Has(r, "fetch") => Has(r, "click") /\ First(r, "fetch") = 3 /\ trace[r][3].v = LoginPath)
       /\ (pc[r] \notin {"new", "L11", "L13"} => Count(r, "fetch") = 1)
       /\ (pc[r] = "new" => trace[r] = <<>>)
  /\ Cardinality({r \in Runs : Has(r, "fetch")}) <= Cardinality({r \in Runs : Has(r, "click")}) + suppressed

C12_Witness ==
  /\ \A r \in Runs : pc[r] = "done" /\ Count(r, "fetch") = 1
  /\ \E r \in Runs : err[r] = ErrFetch
  /\ suppressed > 0

\* ---- C13 ---------------------------------------------------------------
\* C13: when every dispatched request eventually settles, each activation
\* leads (while the document lives) to a navigation or to a failure
\* notification with the control rendered enabled again; and a run leaves its
\* wait only by the settlement of its request, loading staying TRUE and the
\* control disabled for as long as it waits.
C13_SettlementEndsWait ==
  /\ \A r \in Runs :
       Has(r, "click") ~> \/ Has(r, "navigate")
                          \/ (Has(r, "alert") /\ pc[r] = "done" /\ ~loading /\ ~view.disabled)
                          \/ ~mounted
  /\ [](\A r \in Runs : pc[r] = "awaitFetch" => loading /\ (loop = "idle" => view.disabled))
  /\ [][\A r \in Runs : (pc[r] = "awaitFetch" /\ pc'[r] # "awaitFetch")
                          => (response[r] = NoResponse /\ response'[r] \in FetchOutcomes)]_vars

C13_Witness ==
  /\ mounted /\ ~view.disabled /\ ~loading
  /\ \E r \in Runs : Has(r, "alert") /\ pc[r] = "done" /\ response[r].kind = "response"
  /\ \E r \in Runs : Has(r, "alert") /\ pc[r] = "done" /\ response[r].kind = "rejected"

\* ---- C14 ---------------------------------------------------------------
\* the failure class of a run, by what the network and the backend answered
FailureClass(r) ==
  IF response[r].kind = "rejected" THEN "network"
  ELSE IF NonSuccess(r) THEN "status"
  ELSE IF response[r].kind = "response" /\ err[r] # "" THEN "payload"
  ELSE IF response[r].kind = "response" /\ data[r].t = "object" /\ data[r].auth_url.t # "string" THEN "payload"
  ELSE "none"

\* C14: every run that ended in one of the three failure classes logged its
\* underlying error once and then showed the one generic notification, and
\* runs of different classes logged different errors.
C14_SameNotificationDistinctLog ==
  /\ \A r \in Runs :
       (pc[r] = "done" /\ FailureClass(r) # "none") =>
         /\ Count(r, "alert") = 1 /\ Count(r, "log") = 1
         /\ trace[r][First(r, "alert")].v = AlertText
         /\ First(r, "log") < First(r, "alert")
         /\ err[r] # "" /\ trace[r][First(r, "log")].v = err[r]
  /\ \A r, q \in Runs :
       (pc[r] = "done" /\ pc[q] = "done" /\ FailureClass(r) # "none" /\ FailureClass(q) # "none"
          /\ FailureClass(r) # FailureClass(q))
       => (Has(r, "log") /\ Has(q, "log")
             /\ trace[r][First(r, "log")].v # trace[q][First(q, "log")].v)

\* ---- C15 ---------------------------------------------------------------
\* C15: a run navigates at most once and alerts at most once, never both; it
\* navigates only after a response with a 2xx status whose body was parsed,
\* with no exception caught.
C15_NavigateXorAlert ==
  \A r \in Runs :
    /\ Count(r, "navigate") <= 1 /\ Count(r, "alert") <= 1
    /\ ~(Has(r, "navigate") /\ Has(r, "alert"))
    /\ (Has(r, "navigate") =>
          /\ response[r].kind = "response"
          /\ response[r].status >= 200 /\ response[r].status <= 299
          /\ Has(r, "json") /\ First(r, "json") < First(r, "navigate")
          /\ data[r] # NoData
          /\ err[r] = "")
    /\ (Has(r, "alert") => err[r] # "")

C15_Witness ==
  /\ \E r \in Runs : pc[r] = "done" /\ Has(r, "navigate")
  /\ \E r \in Runs : pc[r] = "done" /\ Has(r, "alert") /\ err[r] = ErrNull

\* ---- C16 ---------------------------------------------------------------
\* C16: in a run that failed the effects come in the order log, alert,
\* setLoading(false); loading is TRUE when the error is logged and when the
\* alert is shown, and the reset is the run's last effect.
C16_LogAlertReset ==
  \A r \in Runs :
    /\ (Has(r, "alert") =>
          /\ Has(r, "log") /\ First(r, "alert") = First(r, "log") + 1
          /\ trace[r][First(r, "log")].d /\ trace[r][First(r, "alert")].d
          /\ \A i \in DOMAIN trace[r] :
               (trace[r][i].e = "setLoading" /\ ~trace[r][i].d) => i > First(r, "alert"))
    /\ (pc[r] \in {"L30", "L31", "L33"} => loading /\ (pc[r] = "L33" <=> (Has(r, "alert") \/ Has(r, "navigate"))))
    /\ (pc[r] = "done" /\ Has(r, "alert") =>
          LastEv(r) = Ev("setLoading", "", FALSE) /\ Len(trace[r]) = First(r, "alert") + 1)

C16_Witness ==
  \E r \in Runs : pc[r] = "done" /\ err[r] = ErrStatus /\ Has(r, "alert") /\ ~loading

\* ---- C17 ---------------------------------------------------------------
\* C17: a run that has triggered a navigation goes on to the finally block:
\* loading is still TRUE when it navigates, and the run's last effect is
\* setLoading(false) right after the navigation. (Its witness is the state
\* the claim derives: the document not yet replaced, a navigation triggered,
\* and a later activation with its own request dispatched.)
C17_CleanupAfterNavigation ==
  \A r \in Runs :
    Has(r, "navigate") =>
      /\ pc[r] \in {"L33", "done"}
      /\ trace[r][First(r, "navigate")].d
      /\ (pc[r] = "L33" => loading /\ Len(trace[r]) = First(r, "navigate"))
      /\ (pc[r] = "done" =>
            /\ Len(trace[r]) = First(r, "navigate") + 1
            /\ LastEv(r) = Ev("setLoading", "", FALSE))

C17_Witness ==
  \E r, q \in Runs :
    /\ r < q /\ mounted
    /\ pc[r] = "done" /\ Has(r, "navigate") /\ href # Origin
    /\ Has(q, "click") /\ Has(q, "fetch") /\ pc[q] = "awaitFetch" /\ loop = "idle"

====
